---- MODULE Spec2Model ----
(***************************************************************************)
(* The generational index allocator and the component stores of           *)
(* rust-wasm4-mini-ecs (src/src/ecs.rs), initialised the way update()     *)
(* initialises the arena (src/src/lib.rs).                                *)
(*                                                                         *)
(* A Vec is a sequence; element i of the Rust vector is vec[i + 1].       *)
(* Spec and SpecStores hold the runs in which generation_counter += 1     *)
(* does not overflow GenerationType; SpecOverflow holds the runs up to    *)
(* and past the overflow; SpecWide holds the runs of arenas with about    *)
(* as many entries as IndexType has values; SpecGame holds the runs of    *)
(* update(), the game of lib.rs, system after system.                     *)
(***************************************************************************)
EXTENDS Integers, Sequences, FiniteSets, TLC

\* ------------------------------------------------------------- bounds
\* The largest arena capacity (number of AllocatorEntry) a run starts with.
MaxCapacity == 3
\* The number of successful allocations after which Spec stops allocating.
MaxAllocations == 4

\* ---------------------------------------------------------- the types
\* IndexType = u16: `x as IndexType` keeps x modulo 2^16.
IndexTypeModulus == 65536
\* GenerationType is a fixed-width unsigned integer; the model keeps a narrow
\* one, whose largest value is GenerationMax (u32::MAX in the source).
GenerationMax == MaxAllocations + 3

as_IndexType(n) == n % IndexTypeModulus

\* The component stores of EntityComponents the model keeps, and the payloads
\* a caller stores; every store starts filled with the placeholder payload.
Stores == {"kinematics", "physics"}
Placeholder == "placeholder"
Payloads == {Placeholder, "x"}
\* The stores the runs of Spec write to; the runs of SpecStores write to every store.
WrittenStores == {"kinematics"}

GenerationalIndex == [index : 0..MaxCapacity, generation : 0..GenerationMax]
NoIndex == [index |-> -1, generation |-> -1]

VARIABLES
    entries,            \* GenerationalIndexAllocator.entries
    free,               \* GenerationalIndexAllocator.free
    generation_counter, \* GenerationalIndexAllocator.generation_counter
    components,         \* components[s]: the Vec of GenerationalIndexArray s
    wrapped,            \* generation_counter has wrapped: the build has no overflow checks
    aborted,            \* the process has panicked
    issued,             \* history: the handles successful allocate calls returned
    dead,               \* history: the handles successfully deallocated
    last_set,           \* history: the value last set through a handle not yet deallocated
    scenario,           \* history: the calls made so far, while they follow the scenario
    entities,           \* ECS.entities, the registry of the game
    traced,             \* the messages the game has passed to trace()
    pc,                 \* the system update() runs next
    pass                \* history: the last pass of update_smileys_system

gameVars == <<entities, traced, pc, pass>>

vars == <<entries, free, generation_counter, components, wrapped,
          aborted, issued, dead, last_set, scenario, gameVars>>

\* No pass of update_smileys_system has run.
NoPass == [before |-> <<>>, deallocated |-> <<>>, removed |-> <<>>]

\* The arena is used through its calls alone: update() never runs.
NoGame ==
    /\ entities = <<>>
    /\ traced = {}
    /\ pc = "none"
    /\ pass = NoPass

\* ------------------------------------------------------ the allocator
AllocatorEntry_new == [is_live |-> FALSE, generation |-> 0]

\* The allocator as one value, as the methods receive it in self / allocator.
Allocator == [entries |-> entries, free |-> free,
              generation_counter |-> generation_counter]

\* vec[i] of Rust: a panic when i is out of range.
InRange(vec, i) == i >= 0 /\ i < Len(vec)

\* free_top, were the free list a queue: the first element.
free_top_first(f) == f[1]

\* self.free.pop(): the last element, when there is one.
free_top(f) == f[Len(f)]
\* free_popped, were the index read and not taken off the stack.
free_popped_kept(f) == f
free_popped(f) == SubSeq(f, 1, Len(f) - 1)

\* self.generation_counter += 1 on GenerationType: the sum when it fits; at the
\* largest value the build decides: a panic with overflow checks, else a wrap.
overflows(gc) == gc + 1 > GenerationMax
\* next_generation, were line 71 left out: the counter is not advanced.
next_generation_stuck(gc) == gc
next_generation(gc) == (gc + 1) % (GenerationMax + 1)

\* allocated_entry, were line 72 left out: the entry keeps no stamp.
allocated_entry_unstamped(gc) == [is_live |-> TRUE, generation |-> 0]

\* The entry allocate writes: lines 72-73.
allocated_entry(gc) == [is_live |-> TRUE, generation |-> gc]

\* allocate: the allocator after the call, what it returned, and whether it panicked.
allocate(a, checks) ==
    IF Len(a.free) = 0
    THEN [self |-> a, kind |-> "AllocatorOutOfMemory", index |-> NoIndex, panic |-> FALSE]
    ELSE LET index == free_top(a.free)
             popped == [a EXCEPT !.free = free_popped(a.free)]
         IN  IF overflows(a.generation_counter) /\ checks
             THEN [self |-> popped, kind |-> "Panic", index |-> NoIndex, panic |-> TRUE]
             ELSE LET gc == next_generation(a.generation_counter)
                      counted == [popped EXCEPT !.generation_counter = gc]
                  IN  IF ~InRange(a.entries, index)
                      THEN [self |-> counted, kind |-> "Panic", index |-> NoIndex,
                            panic |-> TRUE]
                      ELSE [self |-> [counted EXCEPT
                                        !.entries[index + 1] = allocated_entry(gc)],
                            kind |-> "Ok",
                            index |-> [index |-> as_IndexType(index), generation |-> gc],
                            panic |-> FALSE]

\* index_oob, were the test off by one.
index_oob_late(i, vec) == i > as_IndexType(Len(vec))

\* The bounds test of deallocate and is_live: i >= self.entries.len() as IndexType.
index_oob(i, vec) == i >= as_IndexType(Len(vec))

\* deallocated_entry, were line 95 left out: the entry stays live.
deallocated_entry_live(e) == e

\* deallocated_entry, were the entry reset to a new one.
deallocated_entry_reset(e) == [is_live |-> FALSE, generation |-> 0]

\* What deallocate does to the entry and to the free stack on success.
deallocated_entry(e) == [e EXCEPT !.is_live = FALSE]
\* free_pushed, were line 96 left out: the index is not given back.
free_pushed_lost(f, i) == f
\* free_pushed, were the index put under the stack instead of on top of it.
free_pushed_under(f, i) == <<i>> \o f
free_pushed(f, i) == Append(f, i)

\* deallocate, were liveness tested before the generation.
deallocate_live_first(a, index) ==
    LET i == index.index
    IN  IF index_oob(i, a.entries)
        THEN [self |-> a, kind |-> "IndexOOB", panic |-> FALSE]
        ELSE IF ~InRange(a.entries, i)
        THEN [self |-> a, kind |-> "Panic", panic |-> TRUE]
        ELSE IF ~a.entries[i + 1].is_live
        THEN [self |-> a, kind |-> "AlreadyDeallocated", panic |-> FALSE]
        ELSE IF a.entries[i + 1].generation # index.generation
        THEN [self |-> a, kind |-> "GenerationMismatch", panic |-> FALSE]
        ELSE [self |-> [a EXCEPT !.entries[i + 1] = deallocated_entry(@),
                                 !.free = free_pushed(@, i)],
              kind |-> "Ok", panic |-> FALSE]

deallocate(a, index) ==
    LET i == index.index
    IN  IF index_oob(i, a.entries)
        THEN [self |-> a, kind |-> "IndexOOB", panic |-> FALSE]
        ELSE IF ~InRange(a.entries, i)
        THEN [self |-> a, kind |-> "Panic", panic |-> TRUE]
        ELSE IF a.entries[i + 1].generation # index.generation
        THEN [self |-> a, kind |-> "GenerationMismatch", panic |-> FALSE]
        ELSE IF ~a.entries[i + 1].is_live
        THEN [self |-> a, kind |-> "AlreadyDeallocated", panic |-> FALSE]
        ELSE [self |-> [a EXCEPT !.entries[i + 1] = deallocated_entry(@),
                                 !.free = free_pushed(@, i)],
              kind |-> "Ok", panic |-> FALSE]

\* is_live, were the handle's generation taken into account.
is_live_current(a, index) ==
    IF index_oob(index.index, a.entries)
    THEN [kind |-> "IndexOOB", value |-> FALSE, panic |-> FALSE]
    ELSE IF ~InRange(a.entries, index.index)
    THEN [kind |-> "Panic", value |-> FALSE, panic |-> TRUE]
    ELSE [kind |-> "Ok",
          value |-> a.entries[index.index + 1].is_live
                    /\ a.entries[index.index + 1].generation = index.generation,
          panic |-> FALSE]

is_live(a, index) ==
    IF index_oob(index.index, a.entries)
    THEN [kind |-> "IndexOOB", value |-> FALSE, panic |-> FALSE]
    ELSE IF ~InRange(a.entries, index.index)
    THEN [kind |-> "Panic", value |-> FALSE, panic |-> TRUE]
    ELSE [kind |-> "Ok", value |-> a.entries[index.index + 1].is_live, panic |-> FALSE]

\* -------------------------------------------------- the component stores
\* The bounds test of set, get and get_mut: index.index >= self.0.len() as IndexType.
store_oob(i, vec) == i >= as_IndexType(Len(vec))

\* generation_matches, were the generation not compared.
generation_matches_any(index, a) == TRUE

\* The generation test of set, get and get_mut against the allocator's entry.
generation_matches(index, a) == index.generation = a.entries[index.index + 1].generation

\* store_written, were the element chosen wrongly: the first one is written.
store_written_first(vec, i, value) == [vec EXCEPT ![1] = value]

\* self.0[index.index as usize] = value
store_written(vec, i, value) == [vec EXCEPT ![i + 1] = value]

\* set, were the generation compared before the liveness is asked.
set_generation_first(vec, index, a, value) ==
    IF store_oob(index.index, vec) \/ index_oob(index.index, a.entries)
    THEN [self |-> vec, kind |-> "IndexOOB", panic |-> FALSE]
    ELSE IF ~InRange(a.entries, index.index) \/ ~InRange(vec, index.index)
    THEN [self |-> vec, kind |-> "Panic", panic |-> TRUE]
    ELSE IF index.generation # a.entries[index.index + 1].generation
    THEN [self |-> vec, kind |-> "GenerationMismatch", panic |-> FALSE]
    ELSE IF ~a.entries[index.index + 1].is_live
    THEN [self |-> vec, kind |-> "NotLive", panic |-> FALSE]
    ELSE [self |-> [vec EXCEPT ![index.index + 1] = value], kind |-> "Ok", panic |-> FALSE]

\* set, were the value written before the handle is validated.
set_written_anyway(vec, index, a, value) ==
    IF store_oob(index.index, vec)
    THEN [self |-> vec, kind |-> "IndexOOB", panic |-> FALSE]
    ELSE LET written == [vec EXCEPT ![index.index + 1] = value]
             alive == is_live(a, index)
         IN  IF alive.kind # "Ok"
             THEN [self |-> written, kind |-> alive.kind, panic |-> alive.panic]
             ELSE IF ~alive.value
             THEN [self |-> written, kind |-> "NotLive", panic |-> FALSE]
             ELSE IF index.generation # a.entries[index.index + 1].generation
             THEN [self |-> written, kind |-> "GenerationMismatch", panic |-> FALSE]
             ELSE [self |-> written, kind |-> "Ok", panic |-> FALSE]

set(vec, index, a, value) ==
    IF store_oob(index.index, vec)
    THEN [self |-> vec, kind |-> "IndexOOB", panic |-> FALSE]
    ELSE LET alive == is_live(a, index)
         IN  IF alive.kind # "Ok"
             THEN [self |-> vec, kind |-> alive.kind, panic |-> alive.panic]
             ELSE IF ~alive.value
             THEN [self |-> vec, kind |-> "NotLive", panic |-> FALSE]
             ELSE IF ~InRange(a.entries, index.index)
             THEN [self |-> vec, kind |-> "Panic", panic |-> TRUE]
             ELSE IF ~generation_matches(index, a)
             THEN [self |-> vec, kind |-> "GenerationMismatch", panic |-> FALSE]
             ELSE IF ~InRange(vec, index.index)
             THEN [self |-> vec, kind |-> "Panic", panic |-> TRUE]
             ELSE [self |-> store_written(vec, index.index, value),
                   kind |-> "Ok", panic |-> FALSE]

\* get: the element is borrowed (line 146) before the generation is compared.
get(vec, index, a) ==
    IF store_oob(index.index, vec)
    THEN [kind |-> "IndexOOB", value |-> Placeholder, panic |-> FALSE]
    ELSE LET alive == is_live(a, index)
         IN  IF alive.kind # "Ok"
             THEN [kind |-> alive.kind, value |-> Placeholder, panic |-> alive.panic]
             ELSE IF ~alive.value
             THEN [kind |-> "NotLive", value |-> Placeholder, panic |-> FALSE]
             ELSE IF ~InRange(vec, index.index) \/ ~InRange(a.entries, index.index)
             THEN [kind |-> "Panic", value |-> Placeholder, panic |-> TRUE]
             ELSE IF ~generation_matches(index, a)
             THEN [kind |-> "GenerationMismatch", value |-> Placeholder, panic |-> FALSE]
             ELSE [kind |-> "Ok", value |-> vec[index.index + 1], panic |-> FALSE]

\* get_mut: as get; on Ok the caller holds a mutable reference to element ref.
get_mut(vec, index, a) ==
    IF store_oob(index.index, vec)
    THEN [kind |-> "IndexOOB", ref |-> -1, panic |-> FALSE]
    ELSE LET alive == is_live(a, index)
         IN  IF alive.kind # "Ok"
             THEN [kind |-> alive.kind, ref |-> -1, panic |-> alive.panic]
             ELSE IF ~alive.value
             THEN [kind |-> "NotLive", ref |-> -1, panic |-> FALSE]
             ELSE IF ~InRange(vec, index.index) \/ ~InRange(a.entries, index.index)
             THEN [kind |-> "Panic", ref |-> -1, panic |-> TRUE]
             ELSE IF ~generation_matches(index, a)
             THEN [kind |-> "GenerationMismatch", ref |-> -1, panic |-> FALSE]
             ELSE [kind |-> "Ok", ref |-> index.index, panic |-> FALSE]

\* ------------------------------------------------------------ history
\* One call as the scenario records it: arg is the handle passed, ret the handle
\* allocate returned, value the payload passed to set, out the payload get returned.
Call(op, arg, store, value, kind, ret, out) ==
    [op |-> op, arg |-> arg, store |-> store, value |-> value, kind |-> kind,
     ret |-> ret, out |-> out]

\* The scenario of the specification, section 8: allocate A0, A1, A2; deallocate A1;
\* allocate A3; get A1; set A3; get A3 from the same store; allocate.
scenario_expects(calls, call) ==
    LET n == Len(calls) + 1
    IN  CASE n \in {1, 2, 3, 5, 9} -> call.op = "allocate"
          [] n = 4 -> call.op = "deallocate" /\ call.arg = calls[2].ret
          [] n = 6 -> call.op = "get" /\ call.arg = calls[2].ret
          [] n = 7 -> call.op = "set" /\ call.arg = calls[5].ret
          [] n = 8 -> /\ call.op = "get"
                      /\ call.arg = calls[5].ret
                      /\ call.store = calls[7].store
          [] OTHER -> FALSE

scenario_next(call) ==
    IF scenario.on /\ scenario_expects(scenario.calls, call)
    THEN [on |-> TRUE, calls |-> Append(scenario.calls, call)]
    ELSE [on |-> FALSE, calls |-> <<>>]

\* The handles the calls of a run are made with: every handle allocate has
\* returned (valid, stale or dead by now) and forged ones, never issued, of every
\* slot index and of an index past every arena.
Forged == {[index |-> i, generation |-> 0] : i \in 0..MaxCapacity}
CallHandles == issued \cup Forged

\* ------------------------------------------------------ initial state
\* update(), lines 155-188, for an arena of c entries: every entry new, the free
\* list filled by pushing 0, 1, ... in this order, every store filled with its
\* placeholder; GenerationalIndexAllocator::new sets generation_counter to 0.
InitArena(c) ==
    /\ entries = [i \in 1..c |-> AllocatorEntry_new]
    /\ free = [i \in 1..c |-> as_IndexType(i - 1)]
    /\ generation_counter = 0
    /\ components = [s \in Stores |-> [i \in 1..c |-> Placeholder]]
    /\ wrapped = FALSE
    /\ aborted = FALSE
    /\ issued = {}
    /\ dead = {}
    /\ last_set = {}
    /\ scenario = [on |-> TRUE, calls |-> <<>>]
    /\ NoGame

Init == \E c \in 1..MaxCapacity : InitArena(c)

InitSmall == \E c \in 1..(MaxCapacity - 1) : InitArena(c)

\* The arena after rounds of allocate and deallocate of the handle it returned:
\* each round pops and pushes back the last index, c - 1, and stamps it with the
\* next generation. OverflowRounds of them leave two allocations before
\* generation_counter += 1 overflows.
OverflowRounds == GenerationMax - 2
RoundHandles(c) == {[index |-> c - 1, generation |-> g] : g \in 1..OverflowRounds}

InitOverflow ==
    \E c \in 1..(MaxCapacity - 1) :
        /\ entries = [i \in 1..c |-> IF i = c
                                     THEN [is_live |-> FALSE, generation |-> OverflowRounds]
                                     ELSE AllocatorEntry_new]
        /\ free = [i \in 1..c |-> as_IndexType(i - 1)]
        /\ generation_counter = OverflowRounds
        /\ components = [s \in Stores |-> [i \in 1..c |-> Placeholder]]
        /\ wrapped = FALSE
        /\ aborted = FALSE
        /\ issued = RoundHandles(c)
        /\ dead = RoundHandles(c)
        /\ last_set = {}
        /\ scenario = [on |-> FALSE, calls |-> <<>>]
        /\ NoGame

\* The arenas a caller of GenerationalIndexAllocator::new builds in the same way
\* with as many entries as IndexType has values, and with one and two fewer.
WideCapacities == (IndexTypeModulus - 2)..IndexTypeModulus
InitWide == \E c \in WideCapacities : InitArena(c)

\* ------------------------------------------------------------ actions
AllocateCall(checks) ==
    /\ ~aborted
    /\ LET r == allocate(Allocator, checks)
       IN  /\ entries' = r.self.entries
           /\ free' = r.self.free
           /\ generation_counter' = r.self.generation_counter
           /\ aborted' = r.panic
           /\ issued' = IF r.kind = "Ok" THEN issued \cup {r.index} ELSE issued
           /\ scenario' = scenario_next(Call("allocate", NoIndex, "", Placeholder,
                                             r.kind, r.index, Placeholder))
           /\ wrapped' = (wrapped \/ (r.kind = "Ok" /\ overflows(generation_counter)))
    /\ UNCHANGED <<components, dead, last_set, gameVars>>

\* allocate in the runs of Spec: generation_counter += 1 does not overflow there.
Allocate ==
    /\ Len(free) = 0 \/ generation_counter < MaxAllocations
    /\ AllocateCall(FALSE)

\* allocate in the runs of SpecStores.
AllocateStores ==
    /\ Len(free) = 0 \/ generation_counter < MaxAllocations - 2
    /\ AllocateCall(FALSE)

\* allocate in the runs of SpecOverflow: at the overflow a build with overflow
\* checks panics and one without wraps; a run that has wrapped is one of a build
\* without. The runs end one allocation after the wrap.
AllocateOverflow ==
    /\ Len(free) = 0 \/ ~wrapped \/ generation_counter < 1
    /\ \E checks \in (IF wrapped THEN {FALSE} ELSE BOOLEAN) : AllocateCall(checks)

Deallocate(index) ==
    /\ ~aborted
    /\ LET r == deallocate(Allocator, index)
       IN  /\ entries' = r.self.entries
           /\ free' = r.self.free
           /\ generation_counter' = r.self.generation_counter
           /\ aborted' = r.panic
           /\ dead' = IF r.kind = "Ok" THEN dead \cup {index} ELSE dead
           /\ last_set' = IF r.kind = "Ok"
                          THEN {e \in last_set : e.index # index}
                          ELSE last_set
           /\ scenario' = scenario_next(Call("deallocate", index, "", Placeholder,
                                             r.kind, NoIndex, Placeholder))
    /\ UNCHANGED <<components, wrapped, issued, gameVars>>

IsLive(index) ==
    /\ ~aborted
    /\ LET r == is_live(Allocator, index)
       IN  /\ aborted' = r.panic
           /\ scenario' = scenario_next(Call("is_live", index, "", Placeholder,
                                             r.kind, NoIndex, Placeholder))
    /\ UNCHANGED <<entries, free, generation_counter, components, wrapped,
                   issued, dead, last_set, gameVars>>

Set(s, index, value) ==
    /\ ~aborted
    /\ LET r == set(components[s], index, Allocator, value)
       IN  /\ components' = [components EXCEPT ![s] = r.self]
           /\ aborted' = r.panic
           /\ last_set' =
                IF r.kind = "Ok"
                THEN {e \in last_set : ~(e.store = s /\ e.index = index)}
                     \cup {[store |-> s, index |-> index, value |-> value]}
                ELSE last_set
           /\ scenario' = scenario_next(Call("set", index, s, value,
                                             r.kind, NoIndex, Placeholder))
    /\ UNCHANGED <<entries, free, generation_counter, wrapped, issued, dead, gameVars>>

Get(s, index) ==
    /\ ~aborted
    /\ LET r == get(components[s], index, Allocator)
       IN  /\ aborted' = r.panic
           /\ scenario' = scenario_next(Call("get", index, s, Placeholder,
                                             r.kind, NoIndex, r.value))
    /\ UNCHANGED <<entries, free, generation_counter, components, wrapped,
                   issued, dead, last_set, gameVars>>

\* get_mut, and the caller's write of value through the reference it returned.
GetMut(s, index, value) ==
    /\ ~aborted
    /\ LET r == get_mut(components[s], index, Allocator)
       IN  /\ components' = IF r.kind = "Ok"
                            THEN [components EXCEPT ![s][r.ref + 1] = value]
                            ELSE components
           /\ aborted' = r.panic
           /\ last_set' = IF r.kind = "Ok"
                          THEN {e \in last_set : ~(e.store = s /\ e.index = index)}
                          ELSE last_set
           /\ scenario' = scenario_next(Call("get_mut", index, s, value,
                                             r.kind, NoIndex, Placeholder))
    /\ UNCHANGED <<entries, free, generation_counter, wrapped, issued, dead, gameVars>>

\* -------------------------------------------------------- specifications
\* Arenas of up to MaxCapacity entries; payloads are written to WrittenStores.
Next ==
    \/ Allocate
    \/ \E index \in CallHandles : Deallocate(index)
    \/ \E index \in CallHandles : IsLive(index)
    \/ \E s \in WrittenStores, index \in CallHandles, value \in Payloads : Set(s, index, value)
    \/ \E s \in Stores, index \in CallHandles : Get(s, index)
    \/ \E s \in WrittenStores, index \in CallHandles, value \in Payloads : GetMut(s, index, value)

Spec == Init /\ [][Next]_vars

\* Smaller arenas; payloads are written to every store.
NextStores ==
    \/ AllocateStores
    \/ \E index \in CallHandles : Deallocate(index)
    \/ \E index \in CallHandles : IsLive(index)
    \/ \E s \in Stores, index \in CallHandles, value \in Payloads : Set(s, index, value)
    \/ \E s \in Stores, index \in CallHandles : Get(s, index)
    \/ \E s \in Stores, index \in CallHandles, value \in Payloads : GetMut(s, index, value)

SpecStores == InitSmall /\ [][NextStores]_vars

\* Smaller arenas, after OverflowRounds rounds; the runs reach the overflow of
\* generation_counter.
NextOverflow ==
    \/ AllocateOverflow
    \/ \E index \in CallHandles : Deallocate(index)
    \/ \E index \in CallHandles : IsLive(index)
    \/ \E s \in WrittenStores, index \in CallHandles, value \in Payloads : Set(s, index, value)
    \/ \E s \in Stores, index \in CallHandles : Get(s, index)
    \/ \E s \in WrittenStores, index \in CallHandles, value \in Payloads : GetMut(s, index, value)

SpecOverflow == InitOverflow /\ [][NextOverflow]_vars

\* Arenas of WideCapacities entries; few allocations, payloads written to WrittenStores.
NextWide ==
    \/ AllocateStores
    \/ \E index \in CallHandles : Deallocate(index)
    \/ \E index \in CallHandles : IsLive(index)
    \/ \E s \in WrittenStores, index \in CallHandles, value \in Payloads : Set(s, index, value)
    \/ \E s \in Stores, index \in CallHandles : Get(s, index)
    \/ \E s \in WrittenStores, index \in CallHandles, value \in Payloads : GetMut(s, index, value)

SpecWide == InitWide /\ [][NextWide]_vars

\* -------------------------------------------------------------- the game
\* lib.rs: update() keeps one ECS and runs its systems on it once a frame. The
\* arena has MAX_N_ENTITIES entries and starts with INITIAL_N_ENTITIES balls,
\* 600 and 50 in the source.
MAX_N_ENTITIES == MaxCapacity + 1
INITIAL_N_ENTITIES == MaxCapacity - 1

\* The fields of EntityComponents.
GameStores == Stores \cup {"raining_smiley"}

\* BallLink; the payload of raining_smiley is the link of SmileyBallComponent.
ReadyToLink == [tag |-> "ReadyToLink", o |-> NoIndex]
CurrentlyLinked(o) == [tag |-> "CurrentlyLinked", o |-> o]

\* The values of Kinematics and PhysicsComponent are not told apart.
Moved == "x"

\* The ECS update() holds.
ECS == [entity_allocator |-> Allocator, components |-> components,
        entities |-> entities, traced |-> traced, panic |-> FALSE]

\* add_smiley_ball, were the ball's link component left as the slot holds it.
link_set_skipped(vec, index, a) == [self |-> vec, kind |-> "Ok", panic |-> FALSE]

\* Line 134: the link component of a new ball.
link_set(vec, index, a) == set(vec, index, a, ReadyToLink)

\* add_smiley_ball, were the registry never full.
registry_full_never(gs) == FALSE

\* Line 96.
registry_full(gs) == Len(gs.entities) >= MAX_N_ENTITIES

add_smiley_ball(gs) ==
    IF gs.panic \/ registry_full(gs)
    THEN gs
    ELSE LET r == allocate(gs.entity_allocator, FALSE)
         IN  IF r.kind = "Ok"
             THEN LET pushed == Append(gs.entities, r.index)
                      last == pushed[Len(pushed)]
                      k == set(gs.components["kinematics"], last, r.self, Moved)
                      p == set(gs.components["physics"], last, r.self, Moved)
                      s == link_set(gs.components["raining_smiley"], last, r.self)
                  IN  [entity_allocator |-> r.self,
                       components |-> [kinematics |-> k.self, physics |-> p.self,
                                       raining_smiley |-> s.self],
                       entities |-> pushed,
                       traced |-> gs.traced
                           \cup (IF k.kind # "Ok" THEN {"Pos component set fail"} ELSE {})
                           \cup (IF p.kind # "Ok" \/ s.kind # "Ok"
                                 THEN {"Phys component set fail"} ELSE {}),
                       panic |-> k.panic \/ p.panic \/ s.panic]
             ELSE [gs EXCEPT !.entity_allocator = r.self,
                             !.traced = @ \cup {"allocate fail"},
                             !.panic = r.panic]

\* Lines 193-195.
RECURSIVE add_smiley_balls(_, _)
add_smiley_balls(gs, n) ==
    IF n = 0 THEN gs ELSE add_smiley_balls(add_smiley_ball(gs), n - 1)

\* Lines 248-259: the partner of e whose components can be read.
None == [some |-> FALSE, o |-> NoIndex]
k2p(gs, e) ==
    LET a == gs.entity_allocator
        sm == get(gs.components["raining_smiley"], e, a)
    IN  IF sm.kind # "Ok" THEN None
        ELSE IF sm.value.tag # "CurrentlyLinked" THEN None
        ELSE IF get(gs.components["kinematics"], sm.value.o, a).kind # "Ok" THEN None
        ELSE IF get(gs.components["raining_smiley"], sm.value.o, a).kind # "Ok" THEN None
        ELSE [some |-> TRUE, o |-> sm.value.o]

\* Lines 247-327, from position i on. Out holds the positions of the balls the
\* test of line 295 finds out of the screen; st.to_rm is to_rm, st.deallocated the
\* handles deallocate accepted.
RECURSIVE smileys_loop(_, _, _)
smileys_loop(st, i, Out) ==
    IF i >= Len(st.gs.entities) \/ st.gs.panic THEN st
    ELSE LET gs == st.gs
             e == gs.entities[i + 1]
             a == gs.entity_allocator
             partner == k2p(gs, e)
             pos == get_mut(gs.components["kinematics"], e, a)
             phys == get(gs.components["physics"], e, a)
             moved == [gs EXCEPT !.components["kinematics"][pos.ref + 1] = Moved]
             d == deallocate(a, e)
         IN  IF pos.kind # "Ok"
             THEN smileys_loop([st EXCEPT !.gs.panic = pos.panic], i + 1, Out)
             ELSE IF phys.kind # "Ok"
             THEN smileys_loop([st EXCEPT !.gs.panic = phys.panic], i + 1, Out)
             ELSE IF ~(partner.some /\ i \in Out)
             THEN smileys_loop([st EXCEPT !.gs = moved], i + 1, Out)
             ELSE IF d.kind # "Ok"
             THEN smileys_loop([st EXCEPT !.gs = [moved EXCEPT !.entity_allocator = d.self,
                                                               !.panic = d.panic]],
                               i + 1, Out)
             ELSE smileys_loop([gs |-> [moved EXCEPT !.entity_allocator = d.self],
                                to_rm |-> Append(st.to_rm, [i |-> i, other_ball |-> partner.o]),
                                deallocated |-> Append(st.deallocated, e)],
                               i + 1, Out)

\* Vec::remove(i).
remove(vec, i) == SubSeq(vec, 1, i) \o SubSeq(vec, i + 2, Len(vec))

\* The removals, were they applied in the order they were collected.
in_order(to_rm) == to_rm

\* Line 330: to_rm.into_iter().rev().
rev(to_rm) == [k \in 1..Len(to_rm) |-> to_rm[Len(to_rm) + 1 - k]]

\* The removal, were the partner's link left as it is.
partner_reset_skipped(gs, other_ball) == gs

\* Lines 332-334.
partner_reset(gs, other_ball) ==
    LET sm == get_mut(gs.components["raining_smiley"], other_ball, gs.entity_allocator)
    IN  IF sm.kind = "Ok"
        THEN [gs EXCEPT !.components["raining_smiley"][sm.ref + 1] = ReadyToLink]
        ELSE [gs EXCEPT !.panic = sm.panic]

\* Lines 330-336, from element k of the removals on; st.removed holds the
\* registry entries removed.
RECURSIVE removal_loop(_, _, _)
removal_loop(st, removals, k) ==
    IF k > Len(removals) \/ st.gs.panic THEN st
    ELSE LET i == removals[k].i
             gs == st.gs
         IN  IF ~InRange(gs.entities, i)
             THEN [st EXCEPT !.gs.panic = TRUE]
             ELSE removal_loop(
                    [gs |-> add_smiley_ball(
                                partner_reset([gs EXCEPT !.entities = remove(@, i)],
                                              removals[k].other_ball)),
                     removed |-> Append(st.removed, gs.entities[i + 1])],
                    removals, k + 1)

\* update_smileys_system: the ECS after the pass, and what the pass did.
update_smileys_system(ecs, Out) ==
    LET looped == smileys_loop([gs |-> ecs, to_rm |-> <<>>, deallocated |-> <<>>], 0, Out)
        done == removal_loop([gs |-> looped.gs, removed |-> <<>>], rev(looped.to_rm), 1)
    IN  [gs |-> done.gs, to_rm |-> looped.to_rm,
         deallocated |-> looped.deallocated, removed |-> done.removed]

\* update_kinematics_system.
RECURSIVE update_kinematics_system(_, _)
update_kinematics_system(ecs, i) ==
    IF i >= Len(ecs.entities) \/ ecs.panic THEN ecs
    ELSE LET pos == get_mut(ecs.components["kinematics"], ecs.entities[i + 1],
                            ecs.entity_allocator)
         IN  update_kinematics_system(
                IF pos.kind = "Ok"
                THEN [ecs EXCEPT !.components["kinematics"][pos.ref + 1] = Moved]
                ELSE [ecs EXCEPT !.panic = pos.panic],
                i + 1)

\* Lines 348-354 but the test of the distance: both balls can be read and are
\* ready to link.
linkable(ecs, e1, e2) ==
    LET a == ecs.entity_allocator
        rs1 == get(ecs.components["raining_smiley"], e1, a)
        rs2 == get(ecs.components["raining_smiley"], e2, a)
    IN  /\ rs1.kind = "Ok"
        /\ rs2.kind = "Ok"
        /\ get(ecs.components["kinematics"], e1, a).kind = "Ok"
        /\ get(ecs.components["kinematics"], e2, a).kind = "Ok"
        /\ rs1.value.tag = "ReadyToLink"
        /\ rs2.value.tag = "ReadyToLink"

\* link_smileys_system, were a ball linked in this pass linked again.
linked_this_pass_forgotten(links, e) == FALSE

\* Line 355: linked_entities_this_pass.contains(e).
linked_this_pass(links, e) == \E k \in 1..Len(links) : e \in {links[k][1], links[k][2]}

\* Lines 344-368, from the pair of positions i < j on. Close holds the pairs of
\* positions the test of line 352 finds within BALL_LINK_RADIUS.
RECURSIVE links_found(_, _, _, _, _)
links_found(ecs, links, i, j, Close) ==
    IF i >= Len(ecs.entities) THEN links
    ELSE IF j >= Len(ecs.entities) THEN links_found(ecs, links, i + 1, i + 2, Close)
    ELSE LET e1 == ecs.entities[i + 1]
             e2 == ecs.entities[j + 1]
         IN  links_found(ecs,
                         IF /\ linkable(ecs, e1, e2)
                            /\ <<i, j>> \in Close
                            /\ ~linked_this_pass(links, e1)
                            /\ ~linked_this_pass(links, e2)
                         THEN Append(links, <<e1, e2>>)
                         ELSE links,
                         i, j + 1, Close)

\* Lines 371-373 and 374-376: the link of e set to CurrentlyLinked(o).
link_written(ecs, e, o) ==
    LET rsm == get_mut(ecs.components["raining_smiley"], e, ecs.entity_allocator)
    IN  IF rsm.kind = "Ok"
        THEN [ecs EXCEPT !.components["raining_smiley"][rsm.ref + 1] = CurrentlyLinked(o)]
        ELSE [ecs EXCEPT !.panic = rsm.panic]

\* Lines 370-377, from element k of links on.
RECURSIVE links_written(_, _, _)
links_written(ecs, links, k) ==
    IF k > Len(links) \/ ecs.panic THEN ecs
    ELSE links_written(link_written(link_written(ecs, links[k][1], links[k][2]),
                                    links[k][2], links[k][1]),
                       links, k + 1)

link_smileys_system(ecs, Close) ==
    links_written(ecs, links_found(ecs, <<>>, 0, 1, Close), 1)

\* Lines 409-416.
unlinked_count(ecs) ==
    Cardinality({k \in 1..Len(ecs.entities) :
        LET b == get(ecs.components["raining_smiley"], ecs.entities[k], ecs.entity_allocator)
        IN  b.kind = "Ok" /\ b.value.tag = "ReadyToLink"})

add_balls_if_all_linked(ecs) ==
    IF unlinked_count(ecs) = 0 THEN add_smiley_balls(ecs, 2) ELSE ecs

\* Lines 155-188 of lib.rs: the ECS the first update() builds, before it adds the
\* first balls. The runs of the game keep no history of the calls to the arena.
InitGame ==
    /\ entries = [i \in 1..MAX_N_ENTITIES |-> AllocatorEntry_new]
    /\ free = [i \in 1..MAX_N_ENTITIES |-> as_IndexType(i - 1)]
    /\ generation_counter = 0
    /\ components = [s \in GameStores |->
                        [i \in 1..MAX_N_ENTITIES |->
                            IF s = "raining_smiley" THEN ReadyToLink ELSE Placeholder]]
    /\ wrapped = FALSE
    /\ aborted = FALSE
    /\ issued = {}
    /\ dead = {}
    /\ last_set = {}
    /\ scenario = [on |-> FALSE, calls |-> <<>>]
    /\ entities = <<>>
    /\ traced = {}
    /\ pc = "add_smiley_balls"
    /\ pass = NoPass

\* The ECS gs is what update() holds after the step.
Held_ECS(gs) ==
    /\ entries' = gs.entity_allocator.entries
    /\ free' = gs.entity_allocator.free
    /\ generation_counter' = gs.entity_allocator.generation_counter
    /\ components' = gs.components
    /\ entities' = gs.entities
    /\ traced' = gs.traced
    /\ aborted' = gs.panic
    /\ UNCHANGED <<wrapped, issued, dead, last_set, scenario>>

\* The allocations left before generation_counter += 1 overflows; the runs of the
\* game stop before it does.
allocations_left == GenerationMax - generation_counter

\* Lines 190-196: the first balls.
AddFirstBalls ==
    /\ pc = "add_smiley_balls"
    /\ ~aborted
    /\ INITIAL_N_ENTITIES <= allocations_left
    /\ Held_ECS(add_smiley_balls(ECS, INITIAL_N_ENTITIES))
    /\ pc' = "update_smileys_system"
    /\ UNCHANGED pass

\* Line 428. A ball without a partner bounces and stays, whatever its position:
\* Out is drawn from the positions of the balls that have one.
UpdateSmileys(Out) ==
    /\ pc = "update_smileys_system"
    /\ ~aborted
    /\ LET r == update_smileys_system(ECS, Out)
       IN  /\ Len(r.to_rm) <= allocations_left
           /\ Held_ECS(r.gs)
           /\ pass' = [before |-> entities, deallocated |-> r.deallocated,
                       removed |-> r.removed]
    /\ pc' = "update_kinematics_system"

\* Line 429.
UpdateKinematics ==
    /\ pc = "update_kinematics_system"
    /\ ~aborted
    /\ Held_ECS(update_kinematics_system(ECS, 0))
    /\ pc' = "link_smileys_system"
    /\ UNCHANGED pass

\* Line 430. Balls that are not both ready to link stay as they are, whatever
\* their distance: Close is drawn from the pairs of the others.
LinkSmileys(Close) ==
    /\ pc = "link_smileys_system"
    /\ ~aborted
    /\ Held_ECS(link_smileys_system(ECS, Close))
    /\ pc' = "add_balls_if_all_linked"
    /\ UNCHANGED pass

\* Line 431, the last system of update() that writes to the ECS.
AddBallsIfAllLinked ==
    /\ pc = "add_balls_if_all_linked"
    /\ ~aborted
    /\ unlinked_count(ECS) > 0 \/ registry_full(ECS) \/ allocations_left >= 2
    /\ Held_ECS(add_balls_if_all_linked(ECS))
    /\ pc' = "update_smileys_system"
    /\ UNCHANGED pass

\* The positions of the balls of the registry that have a partner.
LinkedPositions == {i \in 0..(Len(entities) - 1) : k2p(ECS, entities[i + 1]).some}

\* The pairs of positions of balls that are both ready to link.
LinkablePairs ==
    {ij \in (0..(Len(entities) - 1)) \X (0..(Len(entities) - 1)) :
        ij[1] < ij[2] /\ linkable(ECS, entities[ij[1] + 1], entities[ij[2] + 1])}

\* The game: update() after update(), one system at a time.
NextGame ==
    \/ AddFirstBalls
    \/ \E Out \in SUBSET LinkedPositions : UpdateSmileys(Out)
    \/ UpdateKinematics
    \/ \E Close \in SUBSET LinkablePairs : LinkSmileys(Close)
    \/ AddBallsIfAllLinked

SpecGame == InitGame /\ [][NextGame]_vars

\* ------------------------------------------------------------- claims
\* The handles a claim is checked on: every index of an arena and the first past
\* the largest, with every generation; and handles whose index is out of bounds.
OutOfBounds ==
    {[index |-> i, generation |-> g] :
        i \in {Len(entries), Len(entries) + 1, IndexTypeModulus - 1},
        g \in 0..GenerationMax}
Probes == GenerationalIndex \cup OutOfBounds

\* The handles the calls of a run are made with, and forged ones past the end of
\* the arena.
Handles == CallHandles \cup {h \in OutOfBounds : h.generation = 0}

Errors == {"IndexOOB", "GenerationMismatch", "AlreadyDeallocated", "NotLive"}

\* The handles allocate returned that were not deallocated since.
Held == issued \ dead

\* C1: the handle a successful allocate returns is none of the handles returned
\* before it, so the handles returned in a run are pairwise distinct (index,
\* generation) pairs, also when they are on the same slot.
C1_Uniqueness ==
    LET r == allocate(Allocator, FALSE)
    IN  r.kind = "Ok" => r.index \notin issued

\* Two different handles were returned on one slot index.
C1_SlotReused ==
    \E h1 \in issued, h2 \in issued : h1.index = h2.index /\ h1 # h2

\* C2: a handle that was successfully deallocated is rejected by get, get_mut,
\* set and deallocate in every later state, whatever happened to its slot since;
\* the rejected set leaves the store as it is, the rejected deallocate the allocator.
C2_DeadForever ==
    \A h \in dead :
        /\ deallocate(Allocator, h).kind \in Errors
        /\ deallocate(Allocator, h).self = Allocator
        /\ \A s \in Stores :
            /\ get(components[s], h, Allocator).kind \in Errors
            /\ get_mut(components[s], h, Allocator).kind \in Errors
            /\ \A v \in Payloads :
                /\ set(components[s], h, Allocator, v).kind \in Errors
                /\ set(components[s], h, Allocator, v).self = components[s]

\* A deallocated handle whose slot was reallocated and refilled through the new handle.
C2_SlotRefilled ==
    \E h \in dead, e \in last_set :
        /\ e.index.index = h.index
        /\ e.value = "x"
        /\ get(components[e.store], h, Allocator).kind \in Errors

\* C3: when a deallocated handle's slot is held again by a later handle, every
\* call with the old handle fails with GenerationMismatch and every call with
\* the new one succeeds.
C3_StaleRejected ==
    \A h \in dead, h2 \in Held :
        h2.index = h.index =>
            /\ deallocate(Allocator, h).kind = "GenerationMismatch"
            /\ deallocate(Allocator, h2).kind = "Ok"
            /\ \A s \in Stores :
                /\ get(components[s], h, Allocator).kind = "GenerationMismatch"
                /\ get_mut(components[s], h, Allocator).kind = "GenerationMismatch"
                /\ get(components[s], h2, Allocator).kind = "Ok"
                /\ get_mut(components[s], h2, Allocator).kind = "Ok"
                /\ \A v \in Payloads :
                    /\ set(components[s], h, Allocator, v).kind = "GenerationMismatch"
                    /\ set(components[s], h2, Allocator, v).kind = "Ok"

\* A slot that is held for the third time: two stale handles and the current one.
C3_StaleAndCurrent ==
    \E h \in dead, g \in dead, h2 \in Held :
        /\ h # g
        /\ h.index = h2.index
        /\ g.index = h2.index
        /\ deallocate(Allocator, h).kind = "GenerationMismatch"

\* C4: allocate fails, with AllocatorOutOfMemory, exactly when every slot is live,
\* which is when the free stack is empty, and succeeds otherwise; with no
\* deallocation so far it fails exactly when capacity handles were returned; and
\* after any successful deallocate the next allocate succeeds.
C4_CapacityBound ==
    LET r == allocate(Allocator, FALSE)
        full == \A i \in 1..Len(entries) : entries[i].is_live
    IN  /\ r.kind \in {"Ok", "AllocatorOutOfMemory"}
        /\ (r.kind = "AllocatorOutOfMemory") <=> full
        /\ full <=> (Len(free) = 0)
        /\ dead = {} => (full <=> Cardinality(issued) = Len(entries))
        /\ \A h \in Probes :
            deallocate(Allocator, h).kind = "Ok" =>
                allocate(deallocate(Allocator, h).self, FALSE).kind = "Ok"

\* An arena of two slots or more is exhausted, with no deallocation so far.
C4_Exhausted ==
    /\ Len(entries) >= 2
    /\ dead = {}
    /\ Cardinality(issued) = Len(entries)
    /\ allocate(Allocator, FALSE).kind = "AllocatorOutOfMemory"

\* C5: a second deallocate of a deallocated handle does not succeed and leaves
\* the allocator as it is; while no later handle was returned on its slot, it
\* fails with AlreadyDeallocated.
C5_DoubleFree ==
    \A h \in dead :
        /\ deallocate(Allocator, h).kind # "Ok"
        /\ deallocate(Allocator, h).self = Allocator
        /\ (\A h2 \in issued : h2.index = h.index => h2.generation <= h.generation)
            => deallocate(Allocator, h).kind = "AlreadyDeallocated"

\* A deallocated handle whose slot is still free, while another slot is live.
C5_FreedSlot ==
    \E h \in dead, h2 \in Held :
        /\ h2.index # h.index
        /\ deallocate(Allocator, h).kind = "AlreadyDeallocated"

\* C6: through a handle that is held, set succeeds on every store with every
\* payload and a get that follows returns that payload; and get returns the value
\* last set through a held handle, whatever was set since through other handles
\* or on other stores.
C6_RoundTrip ==
    /\ \A h \in Held, s \in Stores, v \in Payloads :
        LET w == set(components[s], h, Allocator, v)
        IN  /\ w.kind = "Ok"
            /\ get(w.self, h, Allocator).kind = "Ok"
            /\ get(w.self, h, Allocator).value = v
    /\ \A e \in last_set :
        /\ get(components[e.store], e.index, Allocator).kind = "Ok"
        /\ get(components[e.store], e.index, Allocator).value = e.value

\* Values were set through two handles on one store, and through one of them on
\* another store, all still readable and no two of them equal where they could be.
C6_SeveralSets ==
    \E e1 \in last_set, e2 \in last_set, e3 \in last_set :
        /\ e1.store = e2.store
        /\ e1.index # e2.index
        /\ e1.value # e2.value
        /\ e3.store # e1.store
        /\ e3.index = e1.index
        /\ e3.value # e1.value

\* C7: with a handle whose index is at or past the capacity, whatever its
\* generation, deallocate, is_live, set, get and get_mut return IndexOOB, and
\* neither the allocator nor a store changes.
C7_OutOfBounds ==
    \A h \in Probes :
        h.index >= Len(entries) =>
            /\ deallocate(Allocator, h).kind = "IndexOOB"
            /\ deallocate(Allocator, h).self = Allocator
            /\ is_live(Allocator, h).kind = "IndexOOB"
            /\ \A s \in Stores :
                /\ get(components[s], h, Allocator).kind = "IndexOOB"
                /\ get_mut(components[s], h, Allocator).kind = "IndexOOB"
                /\ \A v \in Payloads :
                    /\ set(components[s], h, Allocator, v).kind = "IndexOOB"
                    /\ set(components[s], h, Allocator, v).self = components[s]

\* An out-of-bounds handle bears the generation of a held handle, in an arena with
\* a freed slot, and is refused.
C7_ForgedPastTheEnd ==
    \E h \in OutOfBounds, l \in Held :
        /\ h.generation = l.generation
        /\ dead # {}
        /\ deallocate(Allocator, h).kind = "IndexOOB"
        /\ get(components["kinematics"], h, Allocator).kind = "IndexOOB"

\* The scenario on an arena of capacity 3, as far as the run has followed it: the
\* first three handles are on slots s0, s1, s2 with generations 1, 2, 3; after
\* deallocate(A1) allocate returns A1's slot with generation 4; get(A1) fails with
\* GenerationMismatch; get(A3) returns what set(A3) stored; allocate then fails.
scenario_holds(s0, s1, s2) ==
    (scenario.on /\ Len(entries) = 3) =>
        LET c == scenario.calls
            n == Len(scenario.calls)
        IN  /\ n >= 1 => (c[1].kind = "Ok" /\ c[1].ret = [index |-> s0, generation |-> 1])
            /\ n >= 2 => (c[2].kind = "Ok" /\ c[2].ret = [index |-> s1, generation |-> 2])
            /\ n >= 3 => (c[3].kind = "Ok" /\ c[3].ret = [index |-> s2, generation |-> 3])
            /\ n >= 4 => c[4].kind = "Ok"
            /\ n >= 5 => (c[5].kind = "Ok" /\ c[5].ret = [index |-> s1, generation |-> 4])
            /\ n >= 6 => c[6].kind = "GenerationMismatch"
            /\ n >= 7 => c[7].kind = "Ok"
            /\ n >= 8 => (c[8].kind = "Ok" /\ c[8].out = c[7].value)
            /\ n >= 9 => c[9].kind = "AllocatorOutOfMemory"

\* C8, as claimed: the three handles are on slots 0, 1, 2 in this order.
C8_ScenarioAsClaimed == scenario_holds(0, 1, 2)

\* C8, amended: the free list is a stack filled with 0, 1, 2, so the three handles
\* are on slots 2, 1, 0 in this order; the rest of the scenario is as claimed.
C8_ScenarioAmended == scenario_holds(2, 1, 0)

\* The whole scenario was run on an arena of capacity 3, with the payload "x".
C8_ScenarioRun ==
    /\ scenario.on
    /\ Len(entries) = 3
    /\ Len(scenario.calls) = 9
    /\ scenario.calls[7].value = "x"

\* C9: no call panics: no allocate has aborted the process, and in every state
\* every other call, with any handle, returns Ok or one of its errors.
C9_NeverAborts ==
    /\ ~aborted
    /\ \A h \in Probes :
        /\ deallocate(Allocator, h).kind # "Panic"
        /\ is_live(Allocator, h).kind # "Panic"
        /\ \A s \in Stores :
            /\ get(components[s], h, Allocator).kind # "Panic"
            /\ get_mut(components[s], h, Allocator).kind # "Panic"
            /\ \A v \in Payloads : set(components[s], h, Allocator, v).kind # "Panic"

\* C10: deallocate returns IndexOOB for an index outside [0, capacity); else
\* GenerationMismatch when the stored generation differs, live slot or not; else
\* AlreadyDeallocated when the slot is not live; else Ok, and then exactly that
\* entry's is_live becomes false and the index is pushed once onto free.
C10_DeallocateOrder ==
    \A h \in Probes :
        LET r == deallocate(Allocator, h)
            i == h.index
        IN  IF ~(0 <= i /\ i < Len(entries))
            THEN r.kind = "IndexOOB" /\ r.self = Allocator
            ELSE IF entries[i + 1].generation # h.generation
            THEN r.kind = "GenerationMismatch" /\ r.self = Allocator
            ELSE IF ~entries[i + 1].is_live
            THEN r.kind = "AlreadyDeallocated" /\ r.self = Allocator
            ELSE /\ r.kind = "Ok"
                 /\ r.self.free = Append(free, i)
                 /\ r.self.generation_counter = generation_counter
                 /\ Len(r.self.entries) = Len(entries)
                 /\ \A j \in 1..Len(entries) :
                      /\ r.self.entries[j].generation = entries[j].generation
                      /\ r.self.entries[j].is_live = (entries[j].is_live /\ j # i + 1)

\* A state with a handle for each outcome: out of bounds, a stale generation on a
\* slot that is not live, the current generation on such a slot, and a held handle.
C10_EveryOutcome ==
    \E h1 \in Probes, h2 \in dead, h3 \in dead, h4 \in Held :
        /\ deallocate(Allocator, h1).kind = "IndexOOB"
        /\ deallocate(Allocator, h2).kind = "GenerationMismatch"
        /\ ~is_live(Allocator, h2).value
        /\ deallocate(Allocator, h3).kind = "AlreadyDeallocated"
        /\ deallocate(Allocator, h4).kind = "Ok"

\* A store of n elements: the first n of store s, filled up with placeholders.
StoreOfLength(s, n) ==
    [i \in 1..n |-> IF i <= Len(components[s]) THEN components[s][i] ELSE Placeholder]
StoreLengths == (Len(entries) - 1)..(Len(entries) + 1)

\* The outcome the three stages give for handle h and a store of n elements.
validation(h, n) ==
    IF ~(0 <= h.index /\ h.index < n /\ h.index < Len(entries)) THEN "IndexOOB"
    ELSE IF ~entries[h.index + 1].is_live THEN "NotLive"
    ELSE IF entries[h.index + 1].generation # h.generation THEN "GenerationMismatch"
    ELSE "Ok"

\* C11: for every handle of a call and every store length, set, get and get_mut return the
\* same kind: IndexOOB out of bounds; else NotLive on a slot that is not live,
\* whatever the generations; else GenerationMismatch when the stored generation
\* differs; else Ok, on the element at the handle's index.
C11_SameValidation ==
    \A h \in Handles, n \in StoreLengths :
        LET k == validation(h, n)
        IN  \A s \in Stores :
                LET vec == StoreOfLength(s, n)
                    r == get(vec, h, Allocator)
                    m == get_mut(vec, h, Allocator)
                IN  /\ r.kind = k
                    /\ m.kind = k
                    /\ k = "Ok" => (r.value = vec[h.index + 1] /\ m.ref = h.index)
                    /\ \A v \in Payloads :
                        LET w == set(vec, h, Allocator, v)
                        IN  /\ w.kind = k
                            /\ k = "Ok" => w.self = [vec EXCEPT ![h.index + 1] = v]

\* A state with a handle for each outcome of set: out of bounds; a slot that is
\* not live, with a stale and with the stored generation; a stale handle on a
\* live slot; and a held handle.
C11_EveryOutcome ==
    \E h1 \in Probes, h2 \in dead, h3 \in dead, h4 \in dead, h5 \in Held :
        LET vec == components["kinematics"]
        IN  /\ set(vec, h1, Allocator, "x").kind = "IndexOOB"
            /\ set(vec, h2, Allocator, "x").kind = "NotLive"
            /\ entries[h2.index + 1].generation # h2.generation
            /\ set(vec, h3, Allocator, "x").kind = "NotLive"
            /\ entries[h3.index + 1].generation = h3.generation
            /\ set(vec, h4, Allocator, "x").kind = "GenerationMismatch"
            /\ set(vec, h5, Allocator, "x").kind = "Ok"

\* C12: for a handle whose index is in bounds is_live returns the is_live flag of
\* the slot, whatever the handle's generation: handles on one slot get one answer,
\* and a deallocated handle whose slot is held again gets true.
C12_IsLiveIgnoresGeneration ==
    /\ \A h \in Probes :
        h.index < Len(entries) =>
            /\ is_live(Allocator, h).kind = "Ok"
            /\ is_live(Allocator, h).value = entries[h.index + 1].is_live
            /\ is_live(Allocator, h) = is_live(Allocator, [h EXCEPT !.generation = 0])
    /\ \A h \in dead, h2 \in Held :
        h.index = h2.index => is_live(Allocator, h).value

\* A deallocated handle is told its slot is live: the slot is held again.
C12_StaleToldLive ==
    \E h \in dead, h2 \in Held :
        /\ h.index = h2.index
        /\ is_live(Allocator, h).kind = "Ok"
        /\ is_live(Allocator, h).value
        /\ get(components["kinematics"], h, Allocator).kind = "GenerationMismatch"

\* C13: deallocate and is_live never return IndexOOB for a handle whose index is
\* below the capacity, the number of entries, whatever the capacity is.
C13_InBoundsAccepted ==
    \A h \in Probes \cup issued :
        (0 <= h.index /\ h.index < Len(entries)) =>
            /\ deallocate(Allocator, h).kind # "IndexOOB"
            /\ is_live(Allocator, h).kind # "IndexOOB"

\* C14: a step that returns a new handle, a successful allocate, adds exactly one
\* to generation_counter, on whichever slot, and the handle's generation and the
\* slot's stored generation are the new counter; every other step, a failed
\* allocate and every deallocate, is_live, set, get and get_mut, keeps the counter;
\* and so does deallocate with any handle whatever.
C14_CounterGlobal ==
    /\ [][IF issued' # issued
          THEN /\ generation_counter' = generation_counter + 1
               /\ \A h \in issued' \ issued :
                   /\ h.generation = generation_counter'
                   /\ entries'[h.index + 1].generation = generation_counter'
          ELSE generation_counter' = generation_counter
         ]_vars
    /\ [](\A h \in Probes :
            deallocate(Allocator, h).self.generation_counter = generation_counter)

\* The counter has counted allocations on two slots, one of them used twice, and
\* the arena is full: the next allocate fails.
C14_CountedAcrossSlots ==
    /\ generation_counter >= 3
    /\ Len(free) = 0
    /\ \E h1 \in issued, h2 \in issued, h3 \in issued :
        /\ h1.index = h2.index
        /\ h1 # h2
        /\ h3.index # h1.index

\* C15: generation_counter never decreases, and the handle a successful allocate
\* returns has a generation greater than that of every handle returned before it,
\* also at the largest value of GenerationType.
C15_Monotonic ==
    [][/\ generation_counter' >= generation_counter
       /\ \A h \in issued' \ issued, h2 \in issued : h.generation > h2.generation
      ]_vars

\* The slots that are live, by index.
LiveSlots == {k \in 0..(Len(entries) - 1) : entries[k + 1].is_live}

\* C16: the free stack holds slot indices, each at most once; a slot's index is
\* on the free stack exactly when the slot is not live; and so the length of the
\* free stack and the number of live slots add up to the capacity.
C16_FreeList ==
    /\ \A i \in 1..Len(free) : 0 <= free[i] /\ free[i] < Len(entries)
    /\ \A i \in 1..Len(free), j \in 1..Len(free) : i # j => free[i] # free[j]
    /\ \A k \in 0..(Len(entries) - 1) :
        (\E i \in 1..Len(free) : free[i] = k) <=> ~entries[k + 1].is_live
    /\ Len(free) + Cardinality(LiveSlots) = Len(entries)

\* Slots were given back in another order than they were in at the start, while
\* another slot is live.
C16_Reordered ==
    /\ LiveSlots # {}
    /\ \E i \in 1..Len(free), j \in 1..Len(free) : i < j /\ free[i] > free[j]

\* C17: a step that deallocates a handle, a successful deallocate, pushes its index
\* onto free and clears the is_live of its entry, and keeps that entry's
\* generation, every other entry, generation_counter and every payload of every
\* store; and a step that changes an entry's generation returns a new handle.
C17_DeallocateFrame ==
    [][/\ \A h \in dead' \ dead :
            /\ free' = Append(free, h.index)
            /\ entries' = [entries EXCEPT ![h.index + 1].is_live = FALSE]
            /\ entries[h.index + 1].is_live
            /\ generation_counter' = generation_counter
            /\ components' = components
       /\ (\E j \in 1..Len(entries) : entries'[j].generation # entries[j].generation)
            => issued' # issued
      ]_vars

\* A slot was freed and still holds, stamped with the handle's generation, the
\* payload set through the handle.
C17_PayloadLeftBehind ==
    \E h \in dead, s \in Stores :
        /\ ~entries[h.index + 1].is_live
        /\ entries[h.index + 1].generation = h.generation
        /\ components[s][h.index + 1] = "x"

\* The elements, by store and position, in which two values of components differ.
Changed(c1, c2) ==
    {<<s, j>> \in Stores \X (1..Len(entries)) : c1[s][j] # c2[s][j]}

\* C18: a set that fails returns the store as it was; a set that succeeds returns
\* it with the element at the handle's index replaced and nothing else; a step
\* that changes a payload changes one element of one store and keeps the
\* allocator; and a failed allocate or deallocate returns the allocator as it was.
C18_GatedLocalWrites ==
    /\ [](\A h \in Probes, s \in Stores, v \in Payloads :
            LET w == set(components[s], h, Allocator, v)
            IN  IF w.kind = "Ok"
                THEN w.self = [components[s] EXCEPT ![h.index + 1] = v]
                ELSE w.self = components[s])
    /\ [](allocate(Allocator, FALSE).kind # "Ok"
            => allocate(Allocator, FALSE).self = Allocator)
    /\ [](\A h \in Probes :
            deallocate(Allocator, h).kind # "Ok"
                => deallocate(Allocator, h).self = Allocator)
    /\ [][components' # components =>
            /\ Cardinality(Changed(components, components')) = 1
            /\ \A s \in Stores : Len(components'[s]) = Len(components[s])
            /\ <<entries, free, generation_counter>>' = <<entries, free, generation_counter>>
         ]_vars

\* In a full arena a freed and reallocated slot holds "x": set through the stale
\* handle is refused and set through the held one is accepted.
C18_RefusedAndAccepted ==
    \E h \in dead, h2 \in Held :
        /\ h.index = h2.index
        /\ Len(free) = 0
        /\ components["kinematics"][h.index + 1] = "x"
        /\ set(components["kinematics"], h, Allocator, Placeholder).kind = "GenerationMismatch"
        /\ set(components["kinematics"], h2, Allocator, Placeholder).kind = "Ok"

\* A handle is valid: its index is in bounds, the slot is live and stamped with
\* the handle's generation.
Valid(h) == validation(h, Len(entries)) = "Ok"

\* C19: for every handle, get, get_mut, set and deallocate succeed together, and
\* they do exactly when the handle is valid; and the valid handles are exactly
\* those allocate returned that were not deallocated since.
C19_ValidityAgreed ==
    /\ \A h \in Probes \cup issued :
        /\ deallocate(Allocator, h).kind = "Ok" <=> Valid(h)
        /\ Valid(h) <=> h \in Held
    /\ \A h \in Handles, s \in Stores :
        /\ get(components[s], h, Allocator).kind = "Ok" <=> Valid(h)
        /\ get_mut(components[s], h, Allocator).kind = "Ok" <=> Valid(h)
        /\ \A v \in Payloads : set(components[s], h, Allocator, v).kind = "Ok" <=> Valid(h)

\* Two handles are held, another is stale on a slot held again, and a slot was
\* never allocated.
C19_ValidStaleForged ==
    /\ Cardinality(Held) >= 2
    /\ \E h \in dead, h2 \in Held : h.index = h2.index /\ ~Valid(h) /\ Valid(h2)
    /\ \E i \in 1..Len(entries) : entries[i] = AllocatorEntry_new

\* C20: every stored generation is at most generation_counter; a slot with stored
\* generation 0 was never allocated and is not live; two slots with stored
\* generations other than 0 have different ones; so no slot has two valid handles
\* and there are as many valid handles as live slots.
C20_Generations ==
    /\ \A i \in 1..Len(entries) :
        /\ entries[i].generation <= generation_counter
        /\ entries[i].generation = 0 =>
            /\ ~entries[i].is_live
            /\ \A h \in issued : h.index # i - 1
        /\ \A j \in 1..Len(entries) :
            (i # j /\ entries[i].generation # 0) => entries[i].generation # entries[j].generation
        /\ Cardinality({g \in 0..GenerationMax :
                            Valid([index |-> i - 1, generation |-> g])}) <= 1
    /\ Cardinality({h \in Probes : Valid(h)}) = Cardinality(LiveSlots)

\* Slots with different stamps, live and not live, beside a slot never allocated.
C20_StampedSlots ==
    \E i \in 1..Len(entries), j \in 1..Len(entries), k \in 1..Len(entries) :
        /\ entries[i].is_live /\ entries[i].generation > 1
        /\ ~entries[j].is_live /\ entries[j].generation > 0
        /\ entries[k].generation = 0

\* The first handle allocate returned on its slot.
FirstOn(h) == \A g \in issued : g.index = h.index => g.generation >= h.generation

\* C21: a successful allocate returns the slot index on top of the free stack;
\* after a successful deallocate of a handle the next allocate returns a handle
\* on that handle's slot; and slots are used for the first time in descending
\* order of their index, so every slot never used is below every slot used.
C21_LastInFirstOut ==
    /\ allocate(Allocator, FALSE).kind = "Ok" =>
            allocate(Allocator, FALSE).index.index = free[Len(free)]
    /\ \A h \in Probes \cup issued :
        LET d == deallocate(Allocator, h)
        IN  d.kind = "Ok" =>
                /\ allocate(d.self, FALSE).kind = "Ok"
                /\ allocate(d.self, FALSE).index.index = h.index
    /\ \A h1 \in issued, h2 \in issued :
        (FirstOn(h1) /\ FirstOn(h2) /\ h1.generation < h2.generation)
            => h1.index > h2.index
    /\ \A i \in 1..Len(entries), j \in 1..Len(entries) :
        (entries[i].generation = 0 /\ entries[j].generation # 0) => i < j

\* Two slots are on the free stack, the one freed last on top, above a slot never
\* used, while another slot that was freed is held again.
C21_FreedOnTop ==
    /\ Len(free) >= 2
    /\ entries[free[Len(free)] + 1].generation # 0
    /\ entries[free[1] + 1].generation = 0
    /\ \E h \in dead, h2 \in Held : h.index = h2.index

\* The handles in the registry, and the handles the arena holds valid.
Registry == {entities[k] : k \in 1..Len(entities)}
ValidHandles == {h \in GenerationalIndex : deallocate(Allocator, h).kind = "Ok"}

\* update() has returned, or has added the first balls.
EndOfUpdate == pc = "update_smileys_system"

\* C22: after the first balls are added and at the end of every update(), the
\* registry holds exactly the valid handles, each once, so its length is the
\* number of live slots and at most MAX_N_ENTITIES; and add_smiley_ball never
\* traces a failed allocate or set, nor does the game panic.
C22_RegistryConsistent ==
    /\ EndOfUpdate =>
        /\ Registry = ValidHandles
        /\ Cardinality(Registry) = Len(entities)
        /\ Len(entities) = Cardinality(LiveSlots)
        /\ Len(entities) <= MAX_N_ENTITIES
    /\ traced = {}
    /\ ~aborted

\* update() has returned with a full registry after a pass that removed a ball,
\* and has added balls on every slot, on one of them a second time.
C22_FullAfterRemoval ==
    /\ EndOfUpdate
    /\ Len(pass.removed) >= 1
    /\ Len(entities) = MAX_N_ENTITIES
    /\ generation_counter > MAX_N_ENTITIES
    /\ Len(free) = 0

\* The elements of a sequence.
Elements(s) == {s[k] : k \in 1..Len(s)}

\* C23: the entries a pass of update_smileys_system removes from the registry are
\* the handles deallocated in that pass, each once and in the reverse of the
\* order they were deallocated in, and no other entry leaves the registry; after
\* the pass the registry is not shorter than before it, the entries kept
\* followed by one new ball for each one removed.
C23_DeferredRemoval ==
    /\ Len(pass.removed) = Len(pass.deallocated)
    /\ \A k \in 1..Len(pass.removed) :
        pass.removed[k] = pass.deallocated[Len(pass.deallocated) + 1 - k]
    /\ Cardinality(Elements(pass.deallocated)) = Len(pass.deallocated)
    /\ Elements(pass.deallocated) \subseteq Elements(pass.before)
    /\ pc = "update_kinematics_system" =>
        /\ Len(entities) >= Len(pass.before)
        /\ Elements(pass.before) \ Elements(pass.deallocated) \subseteq Registry
        /\ Elements(pass.deallocated) \cap Registry = {}
        /\ \A h \in Elements(pass.deallocated) : deallocate(Allocator, h).kind # "Ok"
        /\ Cardinality(Registry \ Elements(pass.before)) = Len(pass.removed)

\* A pass has just removed two balls that did not stand last in the registry.
C23_TwoRemoved ==
    /\ pc = "update_kinematics_system"
    /\ Len(pass.removed) = 2
    /\ pass.before[Len(pass.before)] \notin Elements(pass.deallocated)

\* The link component read through handle h.
link_of(h) == get(components["raining_smiley"], h, Allocator)

\* C24: at the end of every update(), the partner O of every ball E of the
\* registry is another ball, valid, and linked to E; in the step of
\* update_smileys_system that deallocates a linked ball, the partner stays valid
\* and its link becomes ReadyToLink; and the handles deallocated in a pass
\* resolve to no component, whoever occupies their slots.
C24_LinkConsistency ==
    /\ [](EndOfUpdate =>
            \A E \in Registry :
                (link_of(E).kind = "Ok" /\ link_of(E).value.tag = "CurrentlyLinked") =>
                    LET O == link_of(E).value.o
                    IN  /\ O # E
                        /\ O \in ValidHandles
                        /\ link_of(O).kind = "Ok"
                        /\ link_of(O).value = CurrentlyLinked(E))
    /\ [][pc = "update_smileys_system" =>
            \A E \in Registry :
                (/\ link_of(E).kind = "Ok"
                 /\ link_of(E).value.tag = "CurrentlyLinked"
                 /\ E \in Elements(pass'.deallocated)) =>
                    LET O == link_of(E).value.o
                        sm == get(components'["raining_smiley"], O, Allocator')
                    IN  sm.kind = "Ok" /\ sm.value = ReadyToLink]_vars
    /\ [](\A h \in Elements(pass.deallocated), s \in GameStores :
            get(components[s], h, Allocator).kind # "Ok")

\* update() has returned after a pass that removed a ball, and a ball of the
\* registry is linked to a ball added on a slot used before.
C24_LinkedToReplacement ==
    /\ EndOfUpdate
    /\ Len(pass.removed) >= 1
    /\ \E E \in Registry :
        /\ link_of(E).kind = "Ok"
        /\ link_of(E).value.tag = "CurrentlyLinked"
        /\ link_of(E).value.o.generation > MAX_N_ENTITIES
        /\ link_of(E).value.o.index = pass.removed[1].index

====
